---------------------------- MODULE Spec2Model ----------------------------
(***************************************************************************)
(* termnotes: the note Store (internal/storage/store.go), its filesystem   *)
(* Backend (internal/storage/filesystem.go), the notes they carry and the  *)
(* interaction model (internal/ui/ui.go) that drives the Store.            *)
(*                                                                         *)
(* Texts are Go strings: finite sequences of bytes (0..255), not           *)
(* necessarily valid UTF-8.  A timestamp is a reading of the wall clock:   *)
(* an instant, counted in clock ticks, and the zone offset it was read     *)
(* under.  The SQLite text form of a time.Time and its RFC 3339 form in    *)
(* JSON both keep the instant to the nanosecond and the offset, so a       *)
(* reading is carried through them unchanged.  SQLite sorts the text       *)
(* forms: by local date and time, then by offset.  Two readings of the     *)
(* clock may coincide (finite clock resolution); in a run whose clock      *)
(* steps, a reading may also be earlier than the one before it (the clock  *)
(* was set back) or made under another offset (the zone changed).          *)
(***************************************************************************)
EXTENDS Integers, Sequences, FiniteSets, TLC

VARIABLES
    backend,    \* Store.backend: "nil" or "fs" (a FileSystemBackend)
    diskFails,  \* whether writes to the file can fail in this run
    dbFails,    \* whether statements on the database can fail in this run
    clockSteps, \* whether the wall clock can be set, or its zone change, in this run
    store,      \* "open": a Store value exists; "none": NewStore returned an error;
                \* "closed": Close() was called on the Store
    db,         \* table notes of the in-memory database: id -> row
    seq,        \* sqlite_sequence entry of table notes (AUTOINCREMENT)
    file,       \* the file at FileSystemBackend.filepath
    clock,      \* the wall clock, last reading time.Now() gave
    last,       \* the last call made on the Store: arguments, result, state before
    created,    \* ids returned by CreateNote on the current Store, in call order
    assigned,   \* every id a note of this backend has ever carried
    m,          \* the ui.Model the program runs, as returned by the last Update
    cmd,        \* what the last Update ended in: "nil", "quit" (tea.Quit) or "panic"
    ev          \* the last message given to Update, and the Model it was given to

vars == <<backend, diskFails, dbFails, clockSteps, store, db, seq, file, clock, last,
          created, assigned, m, cmd, ev>>

\* the interaction model, what its last Update returned and what it was given
ui == <<m, cmd, ev>>

----------------------------------------------------------------------------
(* Bounds of the model *)

\* largest id the model lets AUTOINCREMENT hand out
MaxId == 2
\* last instant the wall clock reaches, in ticks
MaxClock == 2

Ids == 1..MaxId

\* the texts calls are made with, as (title, content): ("e-acute", "") with a
\* two-byte character, and ("\xc3", "b\n") whose title is a lone lead byte,
\* which is not valid UTF-8
Drafts == { << <<195, 169>>, <<>> >>, << <<195>>, <<98, 10>> >> }

----------------------------------------------------------------------------
(* Small helpers *)

Max(a, b) == IF a >= b THEN a ELSE b

\* the zone offsets readings of the clock are made under, in ticks east of
\* UTC
Zones == {0, 1}

\* a time.Time: the reading of instant i under offset z, as the number that
\* orders readings as SQLite orders their text forms, by the local time i + z
\* first and by the offset second
At(i, z) == 2 * (i + z) + z

\* the instant and the zone offset of reading t
Instant(t) == (t \div 2) - (t % 2)
ZoneOf(t) == t % 2

SetMax(S) == CHOOSE x \in S : \A y \in S : y <= x

Range(s) == { s[i] : i \in 1..Len(s) }

EmptyDB == [i \in {} |-> 0]

\* the note (models.Note) held by row id of table d
NoteOf(d, id) ==
    [ID |-> id, Title |-> d[id].Title, Content |-> d[id].Content,
     CreatedAt |-> d[id].CreatedAt, UpdatedAt |-> d[id].UpdatedAt]

NotesOf(d) == { NoteOf(d, id) : id \in DOMAIN d }

\* no ui.Model: the Store is used on its own
NoModel == [mode |-> "none"]

\* the Store and the Backend are called directly, no program runs over them
NoUI == m = NoModel /\ cmd = "nil" /\ ev = [key |-> "", m |-> NoModel]

\* the zero models.Note
NoNote == [ID |-> 0, Title |-> <<>>, Content |-> <<>>, CreatedAt |-> 0, UpdatedAt |-> 0]

----------------------------------------------------------------------------
(* encoding/json on strings: a JSON string is a sequence of code points *)

RuneError == 65533

IsCont(b) == b >= 128 /\ b <= 191

\* utf8.DecodeRuneInString(s[i:]): the code point at byte i and its width;
\* (RuneError, 1) for a byte that starts no valid encoding
DecodeRune(s, i) ==
    LET n  == Len(s) - i + 1
        b0 == s[i]
        bad == [r |-> RuneError, size |-> 1]
    IN  IF b0 < 128 THEN [r |-> b0, size |-> 1]
        ELSE IF b0 >= 194 /\ b0 <= 223
        THEN IF n >= 2 /\ IsCont(s[i+1])
             THEN [r |-> (b0 - 192) * 64 + (s[i+1] - 128), size |-> 2]
             ELSE bad
        ELSE IF b0 >= 224 /\ b0 <= 239
        THEN IF /\ n >= 3
                /\ s[i+1] >= (IF b0 = 224 THEN 160 ELSE 128)
                /\ s[i+1] <= (IF b0 = 237 THEN 159 ELSE 191)
                /\ IsCont(s[i+2])
             THEN [r |-> (b0 - 224) * 4096 + (s[i+1] - 128) * 64 + (s[i+2] - 128),
                   size |-> 3]
             ELSE bad
        ELSE IF b0 >= 240 /\ b0 <= 244
        THEN IF /\ n >= 4
                /\ s[i+1] >= (IF b0 = 240 THEN 144 ELSE 128)
                /\ s[i+1] <= (IF b0 = 244 THEN 143 ELSE 191)
                /\ IsCont(s[i+2])
                /\ IsCont(s[i+3])
             THEN [r |-> (b0 - 240) * 262144 + (s[i+1] - 128) * 4096
                          + (s[i+2] - 128) * 64 + (s[i+3] - 128),
                   size |-> 4]
             ELSE bad
        ELSE bad

\* utf8.AppendRune: the UTF-8 bytes of a code point
EncodeRune(r) ==
    IF r < 128 THEN <<r>>
    ELSE IF r < 2048 THEN <<192 + (r \div 64), 128 + (r % 64)>>
    ELSE IF r < 65536
    THEN <<224 + (r \div 4096), 128 + ((r \div 64) % 64), 128 + (r % 64)>>
    ELSE <<240 + (r \div 262144), 128 + ((r \div 4096) % 64),
           128 + ((r \div 64) % 64), 128 + (r % 64)>>

RECURSIVE EncodeStringFrom(_, _)
EncodeStringFrom(s, i) ==
    IF i > Len(s) THEN <<>>
    ELSE LET d == DecodeRune(s, i)
         IN  <<d.r>> \o EncodeStringFrom(s, i + d.size)

\* json.Marshal of a Go string: its code points, every byte that is not part
\* of a valid UTF-8 encoding written as U+FFFD
EncodeString(s) == EncodeStringFrom(s, 1)

RECURSIVE DecodeString(_)
\* json.Unmarshal into a Go string: the UTF-8 bytes of the code points
DecodeString(rs) ==
    IF rs = <<>> THEN <<>>
    ELSE EncodeRune(Head(rs)) \o DecodeString(Tail(rs))

\* json.MarshalIndent(notes, "", "  "): one object per note, in order
Marshal(notes) ==
    [i \in 1..Len(notes) |->
        [ID |-> notes[i].ID,
         Title |-> EncodeString(notes[i].Title),
         Content |-> EncodeString(notes[i].Content),
         CreatedAt |-> notes[i].CreatedAt,
         UpdatedAt |-> notes[i].UpdatedAt]]

\* json.Unmarshal(data, &notes)
Unmarshal(doc) ==
    [i \in 1..Len(doc) |->
        [ID |-> doc[i].ID,
         Title |-> DecodeString(doc[i].Title),
         Content |-> DecodeString(doc[i].Content),
         CreatedAt |-> doc[i].CreatedAt,
         UpdatedAt |-> doc[i].UpdatedAt]]

----------------------------------------------------------------------------
(* FileSystemBackend *)

MissingFile == [kind |-> "missing", doc |-> <<>>]
\* a file cut short by a failed write: no JSON document
CorruptFile == [kind |-> "corrupt", doc |-> <<>>]
JsonFile(doc) == [kind |-> "json", doc |-> doc]
\* a directory at the path: os.ReadFile fails on it for another reason than
\* its absence, and os.WriteFile cannot open it
UnreadableFile == [kind |-> "unreadable", doc |-> <<>>]

\* (a fault: the absence of the file reported like any other read error)
LoadAllStrict(f) ==
    IF f.kind = "json" THEN [notes |-> Unmarshal(f.doc), err |-> FALSE]
    ELSE [notes |-> <<>>, err |-> TRUE]

\* FileSystemBackend.SaveAll(notes) on file f: the outcomes os.WriteFile can
\* have.  It opens with O_WRONLY|O_CREATE|O_TRUNC, writes and closes.  Over a
\* directory the open fails and the path is left as it is.  Otherwise, on
\* success the file is the new document; on a disk whose writes can fail it
\* also fails leaving the file as it was (open failed), cut short (write
\* failed) or holding the whole new document (only the close failed).
SaveAll(notes, f, fails) ==
    IF f.kind = "unreadable" THEN { [file |-> f, err |-> TRUE] }
    ELSE { [file |-> JsonFile(Marshal(notes)), err |-> FALSE] }
         \cup IF fails
              THEN { [file |-> f, err |-> TRUE],
                     [file |-> CorruptFile, err |-> TRUE],
                     [file |-> JsonFile(Marshal(notes)), err |-> TRUE] }
              ELSE {}

\* FileSystemBackend.LoadAll() on file f
LoadAll(f) ==
    IF f.kind = "missing" THEN [notes |-> <<>>, err |-> FALSE]
    ELSE IF f.kind = "unreadable" THEN [notes |-> <<>>, err |-> TRUE]
    ELSE IF f.kind = "corrupt" THEN [notes |-> <<>>, err |-> TRUE]
    ELSE [notes |-> Unmarshal(f.doc), err |-> FALSE]

----------------------------------------------------------------------------
(* Store *)

\* rows of d with the greatest updated_at: the candidates for the next row
\* of ORDER BY updated_at DESC
FirstRows(d, S) == { i \in S : \A j \in S : d[j].UpdatedAt <= d[i].UpdatedAt }

RECURSIVE OrderBy(_, _)
\* the orders in which SELECT ... ORDER BY updated_at DESC can return the rows
\* S of d: rows with equal updated_at come in any order
OrderBy(d, S) ==
    IF S = {} THEN { <<>> }
    ELSE UNION { { <<NoteOf(d, i)>> \o rest : rest \in OrderBy(d, S \ {i}) }
                 : i \in FirstRows(d, S) }

\* Store.ListNotes() when every step of its query succeeds: the possible
\* results
ListNotes(d) == OrderBy(d, DOMAIN d)

\* the initial segments of l
Prefixes(l) == { SubSeq(l, 1, n) : n \in 0..Len(l) }

\* Store.ListNotes(): the notes and whether an error is returned.  When
\* statements can fail, Query or Scan can fail, which is returned as the
\* error, and rows.Next() can fail after any number of rows, which ends the
\* loop: rows.Err() is not read, so the notes scanned so far are returned
\* with no error
ListNotesOf(d, dbfails) ==
    { [notes |-> l, err |-> FALSE] : l \in ListNotes(d) }
    \cup IF dbfails
         THEN { [notes |-> <<>>, err |-> TRUE] }
              \cup { [notes |-> p, err |-> FALSE]
                     : p \in UNION { Prefixes(l) : l \in ListNotes(d) } }
         ELSE {}

\* (a fault: INTEGER PRIMARY KEY without AUTOINCREMENT, one more than the
\* largest rowid now in the table)
NextRowidOfTable(d, sq) == (IF DOMAIN d = {} THEN 0 ELSE SetMax(DOMAIN d)) + 1

\* the rowid AUTOINCREMENT gives the next inserted row: one more than the
\* largest rowid the table has ever held
NextRowid(d, sq) == Max(sq, IF DOMAIN d = {} THEN 0 ELSE SetMax(DOMAIN d)) + 1

\* (a fault: title and content bound to each other's column)
InsertRowSwapped(d, sq, id, title, content, createdAt, updatedAt) ==
    [db |-> [i \in DOMAIN d \cup {id} |->
                IF i = id
                THEN [Title |-> content, Content |-> title,
                      CreatedAt |-> createdAt, UpdatedAt |-> updatedAt]
                ELSE d[i]],
     seq |-> Max(sq, id)]

\* INSERT of a row: the table and sqlite_sequence after it
InsertRow(d, sq, id, title, content, createdAt, updatedAt) ==
    [db |-> [i \in DOMAIN d \cup {id} |->
                IF i = id
                THEN [Title |-> title, Content |-> content,
                      CreatedAt |-> createdAt, UpdatedAt |-> updatedAt]
                ELSE d[i]],
     seq |-> Max(sq, id)]

\* (a fault: updated_at left out of the SET list)
UpdateRowStale(d, id, title, content, now) ==
    [i \in DOMAIN d |->
        IF i = id
        THEN [Title |-> title, Content |-> content,
              CreatedAt |-> d[i].CreatedAt, UpdatedAt |-> d[i].UpdatedAt]
        ELSE d[i]]

\* (a fault: content left out of the SET list)
UpdateRowKeepsContent(d, id, title, content, now) ==
    [i \in DOMAIN d |->
        IF i = id
        THEN [Title |-> title, Content |-> d[i].Content,
              CreatedAt |-> d[i].CreatedAt, UpdatedAt |-> now]
        ELSE d[i]]

\* (a fault: the WHERE clause left out, every row updated)
UpdateRowEveryRow(d, id, title, content, now) ==
    [i \in DOMAIN d |->
        [Title |-> title, Content |-> content,
         CreatedAt |-> d[i].CreatedAt, UpdatedAt |-> now]]

\* (a fault: INSERT OR REPLACE, a row is made when none has the id)
UpdateRowUpsert(d, id, title, content, now) ==
    [i \in DOMAIN d \cup {id} |->
        IF i = id
        THEN [Title |-> title, Content |-> content,
              CreatedAt |-> IF id \in DOMAIN d THEN d[i].CreatedAt ELSE now,
              UpdatedAt |-> now]
        ELSE d[i]]

\* UPDATE notes SET title, content, updated_at WHERE id = ?
UpdateRow(d, id, title, content, now) ==
    [i \in DOMAIN d |->
        IF i = id
        THEN [Title |-> title, Content |-> content,
              CreatedAt |-> d[i].CreatedAt, UpdatedAt |-> now]
        ELSE d[i]]

\* DELETE FROM notes WHERE id = ?
DeleteRow(d, id) == [i \in DOMAIN d \ {id} |-> d[i]]

\* time.Now(): the readings the wall clock can give after reading c: the
\* same instant or a later one under the same offset, and any instant under
\* any offset when the clock steps
Now(c, steps) ==
    IF steps
    THEN { At(i, z) : i \in 0..MaxClock, z \in Zones }
    ELSE { At(i, ZoneOf(c)) : i \in {Instant(c), Instant(c) + 1} \cap 0..MaxClock }

\* Store.syncToBackend(): the outcomes, each the file after it and the
\* SaveAll calls made (argument and result); when its ListNotes returns an
\* error it returns having made none, and SaveAll is given whatever notes
\* ListNotes returned without one
syncToBackend(d, f, b, fails, dbfails) ==
    IF b = "nil" THEN { [file |-> f, saves |-> <<>>] }
    ELSE UNION { IF r.err
                 THEN { [file |-> f, saves |-> <<>>] }
                 ELSE { [file |-> w.file,
                         saves |-> << [arg |-> r.notes, err |-> w.err] >>]
                        : w \in SaveAll(r.notes, f, fails) }
                 : r \in ListNotesOf(d, dbfails) }

RECURSIVE insertNotesOrIgnore(_, _, _)
\* (a fault: INSERT OR IGNORE, a note whose id is taken is skipped)
insertNotesOrIgnore(notes, d, sq) ==
    IF notes = <<>> THEN [db |-> d, seq |-> sq, err |-> FALSE]
    ELSE LET n == Head(notes)
         IN  IF n.ID \in DOMAIN d
             THEN insertNotesOrIgnore(Tail(notes), d, sq)
             ELSE LET r == InsertRow(d, sq, n.ID, n.Title, n.Content,
                                     n.CreatedAt, n.UpdatedAt)
                  IN  insertNotesOrIgnore(Tail(notes), r.db, r.seq)

RECURSIVE insertNotes(_, _, _)
\* the loop of NewStore over the loaded notes: Store.insertNote on each, in
\* order, stopping at the first that fails (a second row with the same id)
insertNotes(notes, d, sq) ==
    IF notes = <<>> THEN [db |-> d, seq |-> sq, err |-> FALSE]
    ELSE LET n == Head(notes)
         IN  IF n.ID \in DOMAIN d
             THEN [db |-> d, seq |-> sq, err |-> TRUE]
             ELSE LET r == InsertRow(d, sq, n.ID, n.Title, n.Content,
                                     n.CreatedAt, n.UpdatedAt)
                  IN  insertNotes(Tail(notes), r.db, r.seq)

\* NewStore(backend) with file f behind the backend
NewStoreOn(b, f) ==
    IF b = "nil" THEN [db |-> EmptyDB, seq |-> 0, err |-> FALSE]
    ELSE LET l == LoadAll(f)
         IN  IF l.err THEN [db |-> EmptyDB, seq |-> 0, err |-> TRUE]
             ELSE insertNotes(l.notes, EmptyDB, 0)

\* the record of a call
Call(op, id, title, content, err, ret, list, saves) ==
    [op |-> op, id |-> id, title |-> title, content |-> content, err |-> err,
     ret |-> ret, list |-> list, saves |-> saves]

----------------------------------------------------------------------------
(* Actions *)

InitStore ==
    /\ backend \in {"nil", "fs"}
    /\ file = MissingFile
    /\ store = "open"
    /\ db = EmptyDB
    /\ seq = 0
    /\ clock = At(0, 0)
    /\ created = <<>>
    /\ assigned = {}
    /\ last = [op |-> "NewStore", id |-> 0, title |-> <<>>, content |-> <<>>,
               err |-> FALSE, ret |-> NoNote, list |-> <<>>, saves |-> <<>>]

\* the program is started again: NewStore(backend) over the same file
NewStore ==
    LET r == NewStoreOn(backend, file)
    IN  /\ store' = IF r.err THEN "none" ELSE "open"
        /\ db' = IF r.err THEN EmptyDB ELSE r.db
        /\ seq' = IF r.err THEN 0 ELSE r.seq
        /\ created' = <<>>
        /\ last' = Call("NewStore", 0, <<>>, <<>>, r.err, NoNote, <<>>, <<>>)
        /\ UNCHANGED <<backend, diskFails, dbFails, clockSteps, file, clock, assigned>>

\* Store.Close(): the database is closed, and with it the in-memory table
\* is gone; the Store value stays with its callers
Close ==
    /\ store = "open"
    /\ store' = "closed"
    /\ db' = EmptyDB
    /\ seq' = 0
    /\ last' = Call("Close", 0, <<>>, <<>>, FALSE, NoNote, <<>>, <<>>)
    /\ UNCHANGED <<backend, diskFails, dbFails, clockSteps, file, clock, created, assigned>>

\* the statement of a call fails (db.Exec returns an error, as it can on a
\* failing database and always does on a closed one): the call returns the
\* error, having read the clock if it reads it, changed no row and made no
\* SaveAll call
ExecFails(op, id, title, content, times) ==
    /\ dbFails \/ store = "closed"
    /\ clock' \in times
    /\ last' = Call(op, id, title, content, TRUE, NoNote, <<>>, <<>>)
    /\ UNCHANGED <<db, seq, file, created, assigned>>

CreateNote(title, content) ==
    /\ store \in {"open", "closed"}
    /\ \/ /\ store = "open"
          /\ NextRowid(db, seq) <= MaxId
          /\ \E now \in Now(clock, clockSteps) :
               LET id == NextRowid(db, seq)
                   r  == InsertRow(db, seq, id, title, content, now, now)
                   note == [ID |-> id, Title |-> title, Content |-> content,
                            CreatedAt |-> now, UpdatedAt |-> now]
               IN  /\ db' = r.db
                   /\ seq' = r.seq
                   /\ clock' = now
                   /\ created' = Append(created, id)
                   /\ assigned' = assigned \cup {id}
                   /\ \E s \in syncToBackend(r.db, file, backend, diskFails, dbFails) :
                        /\ file' = s.file
                        /\ last' = Call("CreateNote", 0, title, content, FALSE, note,
                                        <<>>, s.saves)
       \/ ExecFails("CreateNote", 0, title, content, Now(clock, clockSteps))
    /\ UNCHANGED <<backend, diskFails, dbFails, clockSteps, store>>

UpdateNote(id, title, content) ==
    /\ store \in {"open", "closed"}
    /\ \/ /\ store = "open"
          /\ \E now \in Now(clock, clockSteps) :
               LET d == UpdateRow(db, id, title, content, now)
               IN  /\ db' = d
                   /\ clock' = now
                   /\ \E s \in syncToBackend(d, file, backend, diskFails, dbFails) :
                        /\ file' = s.file
                        /\ last' = Call("UpdateNote", id, title, content, FALSE,
                                        NoNote, <<>>, s.saves)
          /\ UNCHANGED <<seq, created, assigned>>
       \/ ExecFails("UpdateNote", id, title, content, Now(clock, clockSteps))
    /\ UNCHANGED <<backend, diskFails, dbFails, clockSteps, store>>

\* (a fault: the error of SaveAll returned to the caller)
DeleteNoteSurfaces(id) ==
    /\ store = "open"
    /\ LET d == DeleteRow(db, id)
       IN  /\ db' = d
           /\ \E s \in syncToBackend(d, file, backend, diskFails, dbFails) :
                /\ file' = s.file
                /\ last' = Call("DeleteNote", id, <<>>, <<>>,
                                \E i \in 1..Len(s.saves) : s.saves[i].err,
                                NoNote, <<>>, s.saves)
    /\ UNCHANGED <<backend, diskFails, dbFails, clockSteps, store, seq, clock, created, assigned>>

DeleteNote(id) ==
    /\ store \in {"open", "closed"}
    /\ \/ /\ store = "open"
          /\ LET d == DeleteRow(db, id)
             IN  /\ db' = d
                 /\ \E s \in syncToBackend(d, file, backend, diskFails, dbFails) :
                      /\ file' = s.file
                      /\ last' = Call("DeleteNote", id, <<>>, <<>>, FALSE, NoNote,
                                      <<>>, s.saves)
          /\ UNCHANGED <<seq, clock, created, assigned>>
       \/ ExecFails("DeleteNote", id, <<>>, <<>>, {clock})
    /\ UNCHANGED <<backend, diskFails, dbFails, clockSteps, store>>

\* (a fault: the missing row not reported, the zero note returned)
GetNoteOfNoError(d, id) ==
    IF id \in DOMAIN d THEN [note |-> NoteOf(d, id), err |-> FALSE]
    ELSE [note |-> NoNote, err |-> FALSE]

\* Store.GetNote(id): the note and whether it is the error of a missing row
GetNoteOf(d, id) ==
    IF id \in DOMAIN d THEN [note |-> NoteOf(d, id), err |-> FALSE]
    ELSE [note |-> NoNote, err |-> TRUE]

\* a call of GetNote: a SELECT, which changes nothing
GetNote(id) ==
    /\ store \in {"open", "closed"}
    /\ UNCHANGED vars

\* a call of ListNotes: a SELECT, which changes nothing
List ==
    /\ store \in {"open", "closed"}
    /\ UNCHANGED vars

Next ==
    \/ NewStore /\ UNCHANGED ui
    \/ Close /\ UNCHANGED ui
    \/ \E x \in Drafts : CreateNote(x[1], x[2]) /\ UNCHANGED ui
    \/ \E id \in Ids, x \in Drafts : UpdateNote(id, x[1], x[2]) /\ UNCHANGED ui
    \/ \E id \in Ids : DeleteNote(id) /\ UNCHANGED ui
    \/ \E id \in Ids : GetNote(id)
    \/ List

\* a run on a disk whose writes succeed
Init == InitStore /\ diskFails = FALSE /\ dbFails = FALSE /\ clockSteps = FALSE /\ NoUI

Spec == Init /\ [][Next]_vars

\* a run on a disk whose writes may fail
InitFaulty == InitStore /\ diskFails = TRUE /\ dbFails = FALSE /\ clockSteps = FALSE /\ NoUI

SpecFaulty == InitFaulty /\ [][Next]_vars

----------------------------------------------------------------------------
(* One Store without a backend under a wall clock that steps: between two
   calls the clock can be set back or forth and the zone offset can change *)

InitClock ==
    InitStore /\ backend = "nil" /\ diskFails = FALSE /\ dbFails = FALSE
              /\ clockSteps = TRUE /\ NoUI

NextClock ==
    \/ \E x \in Drafts : CreateNote(x[1], x[2]) /\ UNCHANGED ui
    \/ \E id \in Ids, x \in Drafts : UpdateNote(id, x[1], x[2]) /\ UNCHANGED ui
    \/ \E id \in Ids : DeleteNote(id) /\ UNCHANGED ui

SpecClock == InitClock /\ [][NextClock]_vars

----------------------------------------------------------------------------
(* One Store over a FileSystemBackend with its GetNote calls on record *)

\* a call of GetNote that returns: QueryRow and Scan, no statement that
\* writes and no call of syncToBackend; the call, its result and the SaveAll
\* calls it made are put on record
GetNoteReturns(id) ==
    /\ store \in {"open", "closed"}
    /\ LET g == GetNoteOf(db, id)
       IN  last' = Call("GetNote", id, <<>>, <<>>, g.err, g.note, <<>>, <<>>)
    /\ UNCHANGED <<backend, diskFails, dbFails, clockSteps, store, db, seq, file, clock, created, assigned>>

InitReads == InitStore /\ backend = "fs" /\ diskFails = FALSE /\ dbFails = FALSE /\ clockSteps = FALSE /\ NoUI

NextReads ==
    \/ \E x \in Drafts : CreateNote(x[1], x[2]) /\ UNCHANGED ui
    \/ \E id \in Ids, x \in Drafts : UpdateNote(id, x[1], x[2]) /\ UNCHANGED ui
    \/ \E id \in Ids : DeleteNote(id) /\ UNCHANGED ui
    \/ \E id \in Ids : GetNoteReturns(id) /\ UNCHANGED ui
    \/ Close /\ UNCHANGED ui

SpecReads == InitReads /\ [][NextReads]_vars

----------------------------------------------------------------------------
(* One Store over a FileSystemBackend on a disk whose writes may fail *)

InitSync == InitStore /\ backend = "fs" /\ diskFails = TRUE /\ dbFails = FALSE /\ clockSteps = FALSE /\ NoUI

NextSync ==
    \/ \E x \in Drafts : CreateNote(x[1], x[2]) /\ UNCHANGED ui
    \/ \E id \in Ids, x \in Drafts : UpdateNote(id, x[1], x[2]) /\ UNCHANGED ui
    \/ \E id \in Ids : DeleteNote(id) /\ UNCHANGED ui

SpecSync == InitSync /\ [][NextSync]_vars

----------------------------------------------------------------------------
(* The Backend used on its own: SaveAll and LoadAll called on collections the
   caller chooses *)

\* longest collection handed to SaveAll
MaxColl == 2

BackendNotes ==
    { [ID |-> i, Title |-> x[1], Content |-> x[2], CreatedAt |-> At(0, 0), UpdatedAt |-> u]
      : i \in {1, 2}, x \in Drafts, u \in {At(0, 0), At(1, 0)} }

Collections == UNION { [1..n -> BackendNotes] : n \in 0..MaxColl }

\* some collection was persisted before, or none
InitBackend ==
    /\ backend = "fs"
    /\ diskFails = FALSE /\ dbFails = FALSE /\ clockSteps = FALSE
    /\ file \in {MissingFile, UnreadableFile}
                \cup { JsonFile(Marshal(c)) : c \in Collections }
    /\ store = "none"
    /\ db = EmptyDB
    /\ seq = 0
    /\ clock = At(0, 0)
    /\ created = <<>>
    /\ assigned = {}
    /\ last = Call("NewFileSystemBackend", 0, <<>>, <<>>, FALSE, NoNote, <<>>, <<>>)
    /\ NoUI

BackendSaveAll(c) ==
    /\ \E w \in SaveAll(c, file, diskFails) :
         /\ file' = w.file
         /\ last' = Call("SaveAll", 0, <<>>, <<>>, w.err, NoNote, c, <<>>)
    /\ UNCHANGED <<backend, diskFails, dbFails, clockSteps, store, db, seq, clock, created, assigned>>

BackendLoadAll ==
    /\ LET l == LoadAll(file)
       IN  last' = Call("LoadAll", 0, <<>>, <<>>, l.err, NoNote, l.notes, <<>>)
    /\ UNCHANGED <<backend, diskFails, dbFails, clockSteps, store, db, seq, file, clock, created, assigned>>

NextBackend ==
    \/ \E c \in Collections : BackendSaveAll(c) /\ UNCHANGED ui
    \/ BackendLoadAll /\ UNCHANGED ui

SpecBackend == InitBackend /\ [][NextBackend]_vars

----------------------------------------------------------------------------
(* A Store initialized over whatever the path of the backend holds: nothing,
   something that cannot be read or parsed, or a JSON document of notes, also
   one no Store wrote (two notes under one id) *)

PersistedFiles ==
    {MissingFile, UnreadableFile, CorruptFile}
    \cup { JsonFile(Marshal(c)) : c \in Collections }

\* the clock stands at the latest time a persisted note carries
InitLoad ==
    /\ backend = "fs"
    /\ diskFails = FALSE /\ dbFails = FALSE /\ clockSteps = FALSE
    /\ file \in PersistedFiles
    /\ store = "none"
    /\ db = EmptyDB
    /\ seq = 0
    /\ clock = At(1, 0)
    /\ created = <<>>
    /\ assigned = { file.doc[i].ID : i \in 1..Len(file.doc) }
    /\ last = Call("NewFileSystemBackend", 0, <<>>, <<>>, FALSE, NoNote, <<>>, <<>>)
    /\ NoUI

NextLoad ==
    \/ BackendLoadAll /\ UNCHANGED ui
    \/ NewStore /\ UNCHANGED ui
    \/ \E x \in Drafts : CreateNote(x[1], x[2]) /\ UNCHANGED ui

SpecLoad == InitLoad /\ [][NextLoad]_vars

----------------------------------------------------------------------------
(* The interaction model (internal/ui/ui.go): ui.Model and its Update *)

\* longest text typed into one field of the draft
MaxLen == 1

\* the variables of the Store and its Backend
storeVars == <<backend, diskFails, dbFails, clockSteps, store, db, seq, file, clock, last, created, assigned>>

\* (a fault: no placeholder, the empty title stored as it is)
NoPlaceholder == <<>>

\* "Untitled"
Untitled == <<85, 110, 116, 105, 116, 108, 101, 100>>

\* tea.KeyMsg.String() of the keys pressed, in bytes; the key named e-acute
\* types the one character U+00E9, two bytes in UTF-8
KeyString(key) ==
    CASE key = "q" -> <<113>>
      [] key = "n" -> <<110>>
      [] key = "e" -> <<101>>
      [] key = "d" -> <<100>>
      [] key = "k" -> <<107>>
      [] key = "j" -> <<106>>
      [] key = "up" -> <<117, 112>>
      [] key = "down" -> <<100, 111, 119, 110>>
      [] key = "esc" -> <<101, 115, 99>>
      [] key = "tab" -> <<116, 97, 98>>
      [] key = "enter" -> <<101, 110, 116, 101, 114>>
      [] key = "left" -> <<108, 101, 102, 116>>
      [] key = "right" -> <<114, 105, 103, 104, 116>>
      [] key = "backspace" -> <<98, 97, 99, 107, 115, 112, 97, 99, 101>>
      [] key = "ctrl+s" -> <<99, 116, 114, 108, 43, 115>>
      [] key = "ctrl+c" -> <<99, 116, 114, 108, 43, 99>>
      [] key = "e-acute" -> <<195, 169>>

\* the keys pressed in Normal mode: new, edit, delete, and navigation
NormalKeys == {"n", "e", "d", "up", "down"}

\* the keys pressed in Create and Edit mode: cancel, save, the switch of
\* field, a letter and its erasure
EditKeys == {"esc", "ctrl+s", "tab", "q", "backspace"}

\* s[:i] and s[i:] of a Go string
Before(s, i) == SubSeq(s, 1, i)
After(s, i) == SubSeq(s, i + 1, Len(s))

\* ui.NewModel(store) when ListNotes returns l
NewModel(l) ==
    [notes |-> l, selectedIndex |-> 0, mode |-> "normal",
     editTitle |-> <<>>, editContent |-> <<>>, cursorPos |-> 0,
     editingTitle |-> FALSE, width |-> 80, height |-> 24, err |-> FALSE]

\* (a fault: the first note of the snapshot taken for the selected one)
SelectedNoteFirst == m.notes[1]

\* m.notes[m.selectedIndex]
SelectedNote == m.notes[m.selectedIndex + 1]

\* the text of the active field of the draft
ActiveText == IF m.editingTitle THEN m.editTitle ELSE m.editContent

\* the draft with text s in the active field and the caret at c
WithActiveText(s, c) ==
    IF m.editingTitle
    THEN [m EXCEPT !.editTitle = s, !.cursorPos = c]
    ELSE [m EXCEPT !.editContent = s, !.cursorPos = c]

\* (a fault: the selection left where it was after a delete)
ReclampNever(sel, n) == sel

\* the selection index after a delete reloaded a snapshot of n notes
Reclamp(sel, n) == IF sel >= n /\ n > 0 THEN n - 1 ELSE sel

\* (a fault: no query made, the snapshot the model holds given back)
ListNotesCallStale(d, dbfails) == { [notes |-> m.notes, err |-> FALSE] }

\* m.store.ListNotes() as the Model calls it: the notes in an order the
\* query can give, the rows a query cut short gave, or the error
ListNotesCall(d, dbfails) == ListNotesOf(d, dbfails)

\* (a fault: the error recorded and the editor left all the same)
WithErrorToNormal(mm) == [mm EXCEPT !.err = TRUE, !.mode = "normal"]

\* m.err = err: the model with the error of a Store call recorded in it, its
\* mode as it was
WithError(mm) == [mm EXCEPT !.err = TRUE]

\* (a fault: the snapshot dropped with the draft)
CancelDropsSnapshot(mm) == [mm EXCEPT !.mode = "normal", !.notes = <<>>]

\* case "esc": the model back in Normal mode
Cancel(mm) == [mm EXCEPT !.mode = "normal"]

\* (a fault: only the interrupt key quits)
QuitKeysInterrupt == {"ctrl+c"}

\* case "ctrl+c", "q" of Normal mode: the keys answered with tea.Quit
QuitKeys == {"ctrl+c", "q"}

\* case "up", "k": the selection index after it
Up(sel) == IF sel > 0 THEN sel - 1 ELSE sel

\* (a fault: the selection moved down past the last note)
DownUnclamped(sel, n) == sel + 1

\* case "down", "j": the selection index after it, n the length of m.notes
Down(sel, n) == IF sel < n - 1 THEN sel + 1 ELSE sel

\* (a fault: the texts of the last draft kept)
NewDraftKeepsTexts(mm) ==
    [mm EXCEPT !.mode = "create", !.editingTitle = TRUE, !.cursorPos = 0]

\* case "n": the model in Create mode with an empty draft
NewDraft(mm) ==
    [mm EXCEPT !.mode = "create", !.editTitle = <<>>, !.editContent = <<>>,
               !.editingTitle = TRUE, !.cursorPos = 0]

\* (a fault: the caret put at the start of the title)
EditDraftCaretAtStart(mm, note) ==
    [mm EXCEPT !.mode = "edit", !.editTitle = note.Title,
               !.editContent = note.Content, !.editingTitle = TRUE,
               !.cursorPos = 0]

\* case "e" with a selected note: the model in Edit mode, its draft the
\* title and content of the note
EditDraft(mm, note) ==
    [mm EXCEPT !.mode = "edit", !.editTitle = note.Title,
               !.editContent = note.Content, !.editingTitle = TRUE,
               !.cursorPos = Len(note.Title)]

\* (a fault: the caret left at its offset in the other field)
SwitchFieldKeepsCaret(mm) == [mm EXCEPT !.editingTitle = ~mm.editingTitle]

\* (a fault: the draft title written into the selected note of the snapshot)
SwitchFieldWritesNote(mm) ==
    [mm EXCEPT !.editingTitle = ~mm.editingTitle,
               !.cursorPos = IF ~mm.editingTitle THEN Len(mm.editTitle)
                             ELSE Len(mm.editContent),
               !.notes = IF mm.selectedIndex < Len(mm.notes)
                         THEN [mm.notes EXCEPT ![mm.selectedIndex + 1].Title =
                                                   mm.editTitle]
                         ELSE mm.notes]

\* case "tab": the other field active, the caret at the end of its text
SwitchField(mm) ==
    [mm EXCEPT !.editingTitle = ~mm.editingTitle,
               !.cursorPos = IF ~mm.editingTitle THEN Len(mm.editTitle)
                             ELSE Len(mm.editContent)]

\* (a fault: the caret moved past the end of the text)
RightUnclamped(pos, maxPos) == pos + 1

\* case "right": the caret one further unless it is at maxPos, the length of
\* the active field's text
Right(pos, maxPos) == IF pos < maxPos THEN pos + 1 ELSE pos

\* (a fault: the line break put into the title)
EnterInTitleBreaksLine(mm) ==
    [mm EXCEPT !.editTitle = Before(mm.editTitle, mm.cursorPos) \o <<10>>
                                \o After(mm.editTitle, mm.cursorPos),
               !.cursorPos = mm.cursorPos + 1]

\* case "enter" with the title active: the content field active, the caret
\* at the end of its text
EnterInTitle(mm) ==
    [mm EXCEPT !.editingTitle = FALSE, !.cursorPos = Len(mm.editContent)]

\* Update returns model mm and no command, having made no Store call
Returns(mm) ==
    /\ m' = mm
    /\ cmd' = "nil"
    /\ UNCHANGED storeVars

\* a slice expression out of range ends the program
Panic ==
    /\ m' = m
    /\ cmd' = "panic"
    /\ UNCHANGED storeVars

\* Model.saveNote() and what case "ctrl+s" does with its result: the error
\* kept in m.err, or the mode set to Normal
saveNote ==
    LET title == IF m.editTitle = <<>> THEN Untitled ELSE m.editTitle
        md == [m EXCEPT !.editTitle = title]
        Listed(d) ==
            \E r \in ListNotesCall(d, dbFails) :
                m' = IF r.err THEN WithError(md)
                     ELSE [md EXCEPT !.notes = r.notes, !.mode = "normal"]
        Reload ==
            IF last'.err THEN m' = WithError(md)
            ELSE Listed(db')
    IN  /\ cmd' = "nil"
        /\ IF m.mode = "create"
           THEN CreateNote(title, m.editContent) /\ Reload
           ELSE IF m.mode = "edit" /\ m.selectedIndex < Len(m.notes)
           THEN UpdateNote(SelectedNote.ID, title, m.editContent) /\ Reload
           ELSE /\ UNCHANGED storeVars
                /\ Listed(db)

\* Model.handleKeyPress(msg) with msg.String() = key
handleKeyPress(key) ==
    /\ store = "open"
    /\ cmd = "nil"
    /\ ev' = [key |-> key, m |-> m]
    /\ IF m.mode = "normal"
       THEN CASE key \in QuitKeys ->
                   /\ m' = m
                   /\ cmd' = "quit"
                   /\ UNCHANGED storeVars
              [] key = "n" -> Returns(NewDraft(m))
              [] key = "e" ->
                   IF Len(m.notes) > 0 /\ m.selectedIndex < Len(m.notes)
                   THEN Returns(EditDraft(m, SelectedNote))
                   ELSE Returns(m)
              [] key = "d" ->
                   IF Len(m.notes) > 0 /\ m.selectedIndex < Len(m.notes)
                   THEN /\ DeleteNote(SelectedNote.ID)
                        /\ cmd' = "nil"
                        /\ IF last'.err THEN m' = WithError(m)
                           ELSE \E r \in ListNotesCall(db', dbFails) :
                                   m' = IF r.err THEN WithError(m)
                                        ELSE [m EXCEPT
                                               !.notes = r.notes,
                                               !.selectedIndex =
                                                   Reclamp(m.selectedIndex,
                                                           Len(r.notes))]
                   ELSE Returns(m)
              [] key \in {"up", "k"} ->
                   Returns([m EXCEPT !.selectedIndex = Up(m.selectedIndex)])
              [] key \in {"down", "j"} ->
                   Returns([m EXCEPT !.selectedIndex =
                                         Down(m.selectedIndex, Len(m.notes))])
              [] OTHER -> Returns(m)
       ELSE CASE key = "esc" -> Returns(Cancel(m))
              [] key = "ctrl+s" -> saveNote
              [] key = "tab" -> Returns(SwitchField(m))
              [] key = "backspace" ->
                   IF m.cursorPos > 0
                   THEN IF m.cursorPos > Len(ActiveText) THEN Panic
                        ELSE Returns(WithActiveText(
                                 Before(ActiveText, m.cursorPos - 1)
                                     \o After(ActiveText, m.cursorPos),
                                 m.cursorPos - 1))
                   ELSE Returns(m)
              [] key = "left" ->
                   IF m.cursorPos > 0
                   THEN Returns([m EXCEPT !.cursorPos = m.cursorPos - 1])
                   ELSE Returns(m)
              [] key = "right" ->
                   Returns([m EXCEPT !.cursorPos =
                                         Right(m.cursorPos, Len(ActiveText))])
              [] key = "enter" ->
                   IF m.editingTitle
                   THEN Returns(EnterInTitle(m))
                   ELSE IF m.cursorPos > Len(m.editContent) THEN Panic
                        ELSE Returns([m EXCEPT
                                 !.editContent = Before(m.editContent, m.cursorPos)
                                     \o <<10>> \o After(m.editContent, m.cursorPos),
                                 !.cursorPos = m.cursorPos + 1])
              [] OTHER ->
                   IF Len(KeyString(key)) = 1
                   THEN IF m.cursorPos > Len(ActiveText) THEN Panic
                        ELSE Returns(WithActiveText(
                                 Before(ActiveText, m.cursorPos) \o KeyString(key)
                                     \o After(ActiveText, m.cursorPos),
                                 m.cursorPos + 1))
                   ELSE Returns(m)

\* (a fault: the quotient rounded down)
QuoFloored(a, b) == a \div b

\* the quotient of Go's integer division, which truncates toward zero
Quo(a, b) == IF a >= 0 THEN a \div b ELSE 0 - ((0 - a) \div b)

\* Model.handleMouse(msg) with msg.Type = button, msg.X = x and msg.Y = y
handleMouse(button, x, y) ==
    /\ store = "open"
    /\ cmd = "nil"
    /\ ev' = [key |-> "mouse", m |-> m, button |-> button, x |-> x, y |-> y]
    /\ IF m.mode # "normal" THEN Returns(m)
       ELSE IF button = "left" /\ x < 30
       THEN LET noteIndex == Quo(y - 3, 2)
            IN  IF noteIndex >= 0 /\ noteIndex < Len(m.notes)
                THEN Returns([m EXCEPT !.selectedIndex = noteIndex])
                ELSE Returns(m)
       ELSE Returns(m)

\* Model.Update(tea.WindowSizeMsg{Width: w, Height: h}): the size kept in the
\* model, nothing else changed, no command
WindowSize(w, h) ==
    /\ store = "open"
    /\ cmd = "nil"
    /\ ev' = [key |-> "resize", m |-> m]
    /\ Returns([m EXCEPT !.width = w, !.height = h])

\* Model.renderSidebar as Model.View puts it on the screen: the row on which
\* the note at index i of the snapshot is drawn, under the line "Notes" and
\* the rule, one row a note (no title here holds a line feed)
SidebarRow(i) == 2 + i

\* the notes Model.View draws: none on a terminal it finds too small (fewer
\* than 40 columns or 10 rows) and none in Create or Edit mode, where it
\* draws the editor; else those renderSidebar draws, at the indices below
\* height-5
Displayed(mm) ==
    IF mm.width < 40 \/ mm.height < 10 \/ mm.mode # "normal" THEN {}
    ELSE { i \in 0..(Len(mm.notes) - 1) : i < mm.height - 5 }

\* the key makes the active field of the draft one byte longer
Inserts(key) ==
    \/ key = "enter" /\ ~m.editingTitle
    \/ key \notin {"esc", "ctrl+s", "tab", "backspace", "left", "right", "enter"}
       /\ Len(KeyString(key)) = 1

\* a key of K is pressed in Normal mode
KeyInNormal(K) ==
    /\ m.mode = "normal"
    /\ \E key \in K : handleKeyPress(key)

\* a key of K is pressed in Create or Edit mode; typing stops at n bytes, and
\* only texts of up to n bytes are erased from
KeyInEdit(K, n) ==
    /\ m.mode \in {"create", "edit"}
    /\ \E key \in K :
          /\ Inserts(key) => Len(ActiveText) < n
          /\ key = "backspace" => Len(ActiveText) <= n
          /\ handleKeyPress(key)

NormalKey == KeyInNormal(NormalKeys)

EditKey == KeyInEdit(EditKeys, MaxLen)

\* cmd/termnotes main: the Store over a FileSystemBackend with no file yet,
\* and the Model made from it
InitUI ==
    /\ InitStore
    /\ backend = "fs"
    /\ diskFails = FALSE /\ dbFails = FALSE /\ clockSteps = FALSE
    /\ m = NewModel(<<>>)
    /\ cmd = "nil"
    /\ ev = [key |-> "", m |-> NoModel]

NextUI ==
    \/ NormalKey
    \/ EditKey

SpecUI == InitUI /\ [][NextUI]_vars

----------------------------------------------------------------------------
(* The same program over a database whose statements can fail: new and edit
   in Normal mode, save in the editor *)

SaveNormalKeys == {"n", "e"}

SaveEditKeys == {"ctrl+s"}

InitSaveFails ==
    /\ InitStore
    /\ backend = "fs"
    /\ diskFails = FALSE
    /\ dbFails = TRUE
    /\ clockSteps = FALSE
    /\ m = NewModel(<<>>)
    /\ cmd = "nil"
    /\ ev = [key |-> "", m |-> NoModel]

NextSaveFails ==
    \/ KeyInNormal(SaveNormalKeys)
    \/ KeyInEdit(SaveEditKeys, MaxLen)

SpecSaveFails == InitSaveFails /\ [][NextSaveFails]_vars

----------------------------------------------------------------------------
(* Sessions of the program started over a file of notes some earlier run
   left, with keys and mouse clicks that make no Store call *)

\* the files of up to k notes: ids 1..n, each with one of the texts, created
\* at 0 and last updated at a time of T
SessionFiles(k, T) ==
    UNION { { JsonFile(Marshal([i \in 1..n |->
                  [ID |-> i, Title |-> f[i][1][1], Content |-> f[i][1][2],
                   CreatedAt |-> At(0, 0), UpdatedAt |-> f[i][2]]]))
              : f \in [1..n -> Drafts \X T] }
            : n \in 0..k }

\* cmd/termnotes main: NewStore over a file of F, then NewModel over the
\* Store, whose ListNotes returned no error; dbf tells whether statements on
\* the database can fail in the session
SessionOver(F, dbf) ==
    /\ backend = "fs"
    /\ diskFails = FALSE
    /\ dbFails = dbf
    /\ clockSteps = FALSE
    /\ file \in F
    /\ store = "open"
    /\ db = NewStoreOn(backend, file).db
    /\ seq = NewStoreOn(backend, file).seq
    /\ clock = At(1, 0)
    /\ created = <<>>
    /\ assigned = DOMAIN db
    /\ last = Call("NewStore", 0, <<>>, <<>>, FALSE, NoNote, <<>>, <<>>)
    /\ m \in { NewModel(r.notes) : r \in { x \in ListNotesOf(db, dbf) : ~x.err } }
    /\ cmd = "nil"
    /\ ev = [key |-> "", m |-> NoModel]

\* a session in which no statement on the database fails
InitSession(F) == SessionOver(F, FALSE)

(* Browsing: the selection moved by keys and clicks, the editor entered and
   left *)

\* last screen row a click is made on
MaxRow == 7

BrowseNormalKeys == {"n", "e", "up", "k", "down", "j"}

BrowseEditKeys == {"esc"}

\* the columns and rows clicked on
ClickColumns == {0, 29, 30}
ClickRows == 0..MaxRow

\* a mouse button is pressed
Click == \E b \in {"left", "right"}, x \in ClickColumns, y \in ClickRows :
            handleMouse(b, x, y)

\* the sizes the terminal is given: larger than the 80x24 the model starts
\* with, too few rows, too few columns
WindowSizes == { <<100, 30>>, <<80, 6>>, <<30, 24>> }

\* the terminal is resized
Resize == \E sz \in WindowSizes : WindowSize(sz[1], sz[2])

InitBrowse == InitSession(SessionFiles(MaxId, {At(0, 0), At(1, 0)}))

NextBrowse ==
    \/ KeyInNormal(BrowseNormalKeys)
    \/ KeyInEdit(BrowseEditKeys, MaxLen)
    \/ Click
    \/ Resize

SpecBrowse == InitBrowse /\ [][NextBrowse]_vars

(* Drafting: the keys of the editor but save and enter, over a file of few
   notes *)

\* most notes in the file a drafting session starts from
MaxNotes == 1

\* longest text typed into, or erased from, in a drafting session
MaxText == 3

DraftNormalKeys == {"n", "e", "q", "ctrl+c"}

DraftEditKeys ==
    {"esc", "tab", "q", "e-acute", "backspace", "left", "right", "ctrl+c"}

InitDraft == InitSession(SessionFiles(MaxNotes, {At(0, 0)}))

\* run() after tea.Quit: Program.Run returns and the deferred store.Close()
\* is made
Exit ==
    /\ cmd = "quit"
    /\ Close
    /\ UNCHANGED ui

NextDraft ==
    \/ KeyInNormal(DraftNormalKeys)
    \/ KeyInEdit(DraftEditKeys, MaxText)
    \/ Exit

SpecDraft == InitDraft /\ [][NextDraft]_vars

(* Typing: every key the editor answers but save, and clicks while it is
   open *)

TypingNormalKeys == {"n", "e"}

TypingKeys == {"esc", "tab", "q", "backspace", "left", "right", "enter"}

\* a mouse button pressed on the row and column of a note
TypingClick == \E b \in {"left", "right"} : handleMouse(b, 0, 3)

InitTyping == InitSession(SessionFiles(MaxNotes, {At(0, 0)}))

NextTyping ==
    \/ KeyInNormal(TypingNormalKeys)
    \/ KeyInEdit(TypingKeys, MaxText)
    \/ TypingClick
    \/ Resize

SpecTyping == InitTyping /\ [][NextTyping]_vars

(* Selecting: notes created, edited and deleted while the selection is
   moved by keys and clicks, from an empty Store *)

SelectNormalKeys == {"n", "e", "d", "up", "down"}

SelectEditKeys == {"ctrl+s"}

\* the rows clicked on: the rule under the header, and the rows that map to
\* the indices 0, 1 and 2
SelectRows == {2, 3, 5, 7}

\* the left button pressed in the sidebar
SelectClick == \E y \in SelectRows : handleMouse("left", 0, y)

InitSelect == InitUI

NextSelect ==
    \/ KeyInNormal(SelectNormalKeys)
    \/ KeyInEdit(SelectEditKeys, MaxLen)
    \/ SelectClick

SpecSelect == InitSelect /\ [][NextSelect]_vars

\* the same keys and clicks over a database whose statements can fail
InitSelectFails == InitSaveFails

SpecSelectFails == InitSelectFails /\ [][NextSelect]_vars

(* The caret: one visit of the editor, over a database whose statements
   fail, with the keys that move the caret or change the text under it and
   saves that return an error *)

\* longest text typed into, or erased from, in a visit of the editor; the
\* titles of loaded notes and the title a save leaves in the draft are longer
MaxCaret == 1

CaretNormalKeys == {"n", "e"}

CaretKeys == {"tab", "q", "backspace", "left", "right", "enter"}

\* a save that fails: saveNote returns the error of its CreateNote or
\* UpdateNote, or that of the ListNotes after it, and the editor stays open
FailedSave == KeyInEdit({"ctrl+s"}, MaxCaret) /\ m'.mode = m.mode

InitCaret == SessionOver(SessionFiles(MaxNotes, {At(0, 0)}), TRUE)

NextCaret ==
    \/ KeyInNormal(CaretNormalKeys)
    \/ KeyInEdit(CaretKeys, MaxCaret)
    \/ FailedSave

SpecCaret == InitCaret /\ [][NextCaret]_vars

----------------------------------------------------------------------------
(* Properties *)

Mutators == {"CreateNote", "UpdateNote", "DeleteNote"}

\* how many times note n occurs in the sequence l
Count(l, n) == Cardinality({ i \in 1..Len(l) : l[i] = n })

\* two collections hold the same notes, each as often, in whatever order
SameCollection(a, b) ==
    /\ Len(a) = Len(b)
    /\ \A n \in Range(a) \cup Range(b) : Count(a, n) = Count(b, n)

\* sequence l lists the rows of table d, each once
ListsExactly(l, d) ==
    /\ Len(l) = Cardinality(DOMAIN d)
    /\ Range(l) = NotesOf(d)

\* a step in which CreateNote returns: it extends the ids returned so far
CreateNoteStep == Len(created') = Len(created) + 1

\* C1: with a backend, after a CreateNote, UpdateNote or DeleteNote that
\* returned no error (and whose SaveAll returned none), SaveAll was called once,
\* with the collection as ListNotes gives it after the mutation, and what
\* LoadAll would return is the Store's collection: same ids, same title,
\* content, createdAt and updatedAt for each.
C1_PersistedEqualsStore ==
    ( /\ store = "open"
      /\ backend = "fs"
      /\ last.op \in Mutators
      /\ ~last.err
      /\ \A i \in 1..Len(last.saves) : ~last.saves[i].err )
    => /\ Len(last.saves) = 1
       /\ last.saves[1].arg \in ListNotes(db)
       /\ ~LoadAll(file).err
       /\ ListsExactly(LoadAll(file).notes, db)

\* C2: a Store initialized from the backend of an open Store holds exactly
\* the notes that Store held: same ids, titles, contents, createdAt, updatedAt.
C2_RestartKeepsNotes ==
    [][ (NewStore /\ store = "open" /\ backend = "fs")
        => (store' = "open" /\ NotesOf(db') = NotesOf(db)) ]_vars

\* C3: LoadAll right after a SaveAll(c) that returned no error returns the
\* notes of c, each as often as c holds it, whatever was persisted before.
C3_BackendRoundTrip ==
    [][ (BackendLoadAll /\ last.op = "SaveAll" /\ ~last.err)
        => (~last'.err /\ SameCollection(last'.list, last.list)) ]_vars

\* C4: the ids CreateNote returns on one Store are strictly increasing in
\* call order (so pairwise distinct).
C4_IdsIncreasing ==
    \A i, j \in 1..Len(created) : i < j => created[i] < created[j]

\* C4 witness: two CreateNote calls were made on the Store, and a note deleted
C4_Witness ==
    /\ Len(created) >= 2
    /\ Cardinality(DOMAIN db) < Len(created)

\* C5: the id CreateNote returns was never carried by an earlier note of this
\* backend, deleted or not, across re-initializations of the Store from it.
C5_IdsNeverReused ==
    [][ (backend = "fs" /\ CreateNoteStep) => last'.ret.ID \notin assigned ]_vars

\* C6: every result of ListNotes holds each note of the collection exactly
\* once, and in it the instant of updatedAt never increases from one note to
\* the next.
C6_ListSortedComplete ==
    store = "open" =>
        /\ ListNotes(db) # {}
        /\ \A l \in ListNotes(db) :
             /\ ListsExactly(l, db)
             /\ \A i, j \in 1..Len(l) :
                   i < j => Instant(l[i].UpdatedAt) >= Instant(l[j].UpdatedAt)

\* C6, what holds: every result of ListNotes holds each note of the
\* collection exactly once, and in it the stored text of updatedAt never
\* increases from one note to the next; the instants never increase among
\* notes whose updatedAt was read under one zone offset.
C6_ListSortedByStoredText ==
    store = "open" =>
        /\ ListNotes(db) # {}
        /\ \A l \in ListNotes(db) :
             /\ ListsExactly(l, db)
             /\ \A i, j \in 1..Len(l) :
                   i < j =>
                     /\ l[i].UpdatedAt >= l[j].UpdatedAt
                     /\ ZoneOf(l[i].UpdatedAt) = ZoneOf(l[j].UpdatedAt)
                          => Instant(l[i].UpdatedAt) >= Instant(l[j].UpdatedAt)

\* the last call was UpdateNote on an id of the collection
UpdatedPresent ==
    /\ store = "open"
    /\ last.op = "UpdateNote"
    /\ last.id \in DOMAIN db

\* C7 as claimed: after UpdateNote on a present id, ListNotes returns that
\* note at index 0.
C7_UpdatedNoteFirst ==
    UpdatedPresent => \A l \in ListNotes(db) : l[1].ID = last.id

\* C7 amended: after UpdateNote on a present id, the note's updatedAt is the
\* reading of the clock the call made, and ListNotes returns the note at
\* index 0 whenever every other note's updatedAt comes before that reading
\* in the order ListNotes sorts by (that of the stored texts).
C7_UpdatedNoteFirstUnlessTie ==
    UpdatedPresent =>
        /\ db[last.id].UpdatedAt = clock
        /\ (\A j \in DOMAIN db \ {last.id} : db[j].UpdatedAt < clock)
           => \A l \in ListNotes(db) : l[1].ID = last.id

\* C7 witness: note 1, created before note 2, was updated after it
C7_Witness ==
    /\ UpdatedPresent
    /\ last.id = 1
    /\ 2 \in DOMAIN db
    /\ db[1].CreatedAt < db[2].CreatedAt
    /\ db[2].UpdatedAt < db[1].UpdatedAt

\* C8: every note of the collection has createdAt <= updatedAt, as instants.
C8_CreatedBeforeUpdated ==
    \A id \in DOMAIN db : Instant(db[id].CreatedAt) <= Instant(db[id].UpdatedAt)

\* C8, what holds: a note's updatedAt is its createdAt until UpdateNote is
\* called on it, and then the reading of the clock that call made; in a run
\* whose clock does not step every note has createdAt <= updatedAt.
C8_UpdatedIsLastReading ==
    /\ [][ \A id \in DOMAIN db' :
             \/ id \in DOMAIN db /\ db'[id].UpdatedAt = db[id].UpdatedAt
                                 /\ db'[id].CreatedAt = db[id].CreatedAt
             \/ last'.op = "CreateNote" /\ id = last'.ret.ID
                  /\ db'[id].UpdatedAt = clock' /\ db'[id].CreatedAt = clock'
             \/ last'.op = "UpdateNote" /\ id = last'.id
                  /\ db'[id].UpdatedAt = clock'
                  /\ db'[id].CreatedAt = db[id].CreatedAt
             \/ last'.op = "NewStore" ]_vars
    /\ [](~clockSteps => C8_CreatedBeforeUpdated)

\* C9: CreateNote(title, content) adds one note, under an id no note had,
\* with that title and content and createdAt = updatedAt; the note returned
\* is the stored one; every note there was is unchanged.
C9_CreateAddsOneNote ==
    [][ CreateNoteStep =>
          LET n == last'.ret
          IN  /\ last'.op = "CreateNote"
              /\ n.ID \notin DOMAIN db
              /\ DOMAIN db' = DOMAIN db \cup {n.ID}
              /\ NoteOf(db', n.ID) = n
              /\ n.Title = last'.title
              /\ n.Content = last'.content
              /\ n.CreatedAt = n.UpdatedAt
              /\ \A i \in DOMAIN db : db'[i] = db[i] ]_vars

\* C9 witness: CreateNote returned while another note was there
C9_Witness ==
    /\ last.op = "CreateNote"
    /\ Cardinality(DOMAIN db) = 2
    /\ last.ret.ID \in DOMAIN db

\* C10 as claimed: after UpdateNote(id, title, content) on a present id,
\* GetNote(id) returns the new title and content and updatedAt > createdAt.
C10_UpdateRefreshesStrictly ==
    UpdatedPresent =>
        LET g == GetNoteOf(db, last.id)
        IN  /\ ~g.err
            /\ g.note.Title = last.title
            /\ g.note.Content = last.content
            /\ Instant(g.note.UpdatedAt) > Instant(g.note.CreatedAt)

\* C10 amended: after UpdateNote(id, title, content) on a present id,
\* GetNote(id) returns the note of that id with the new title and content,
\* and its updatedAt is the reading of the clock the call made.
C10_UpdateRefreshes ==
    UpdatedPresent =>
        LET g == GetNoteOf(db, last.id)
        IN  /\ ~g.err
            /\ g.note.ID = last.id
            /\ g.note.Title = last.title
            /\ g.note.Content = last.content
            /\ g.note.UpdatedAt = clock

\* C10 witness: UpdateNote gave a note of the collection its title and
\* content, at a later time than the note's creation
C10_Witness ==
    /\ UpdatedPresent
    /\ Instant(db[last.id].UpdatedAt) > Instant(db[last.id].CreatedAt)
    /\ db[last.id].Title = last.title
    /\ db[last.id].Content = last.content

\* C11: an UpdateNote call keeps the ids of the collection (so the number of
\* notes), the createdAt of the note with the given id, and every field of
\* every other note.
C11_UpdateChangesOneNote ==
    [][ last'.op = "UpdateNote" =>
          /\ DOMAIN db' = DOMAIN db
          /\ \A i \in DOMAIN db :
               IF i = last'.id
               THEN db'[i].CreatedAt = db[i].CreatedAt
               ELSE db'[i] = db[i] ]_vars

\* C11 witness: UpdateNote changed a note at a later time than its creation
\* while another note, with another title, was in the collection
C11_Witness ==
    /\ UpdatedPresent
    /\ db[last.id].CreatedAt < db[last.id].UpdatedAt
    /\ \E j \in DOMAIN db : j # last.id /\ db[j].Title # db[last.id].Title

\* C12: UpdateNote and DeleteNote called on an open Store with an id that is
\* not in the collection return no error and leave every note as it was:
\* same ids, titles, contents, createdAt and updatedAt.
C12_AbsentIdNoOp ==
    [][ ( /\ store = "open"
          /\ last'.op \in {"UpdateNote", "DeleteNote"}
          /\ last'.id \notin DOMAIN db )
        => (~last'.err /\ db' = db) ]_vars

\* C12 witness: DeleteNote was called with an id no note ever had, on a
\* collection that holds a note
C12_Witness ==
    /\ store = "open"
    /\ last.op = "DeleteNote"
    /\ last.id \notin assigned
    /\ DOMAIN db # {}

\* ids that notes of this backend have carried and that are not in the
\* collection: over a backend whose writes succeed, the ids removed by
\* DeleteNote
Deleted == assigned \ DOMAIN db

\* C13: once DeleteNote(id) has returned for a note of the collection,
\* GetNote(id) fails, no ListNotes result holds a note with that id and every
\* other note is kept as it was; and from then on the id never comes back into
\* the collection, in this Store or in one initialized from the same backend.
C13_DeletedStaysDeleted ==
    [][ /\ (last'.op = "DeleteNote" /\ last'.id \in DOMAIN db) =>
             /\ GetNoteOf(db', last'.id).err
             /\ \A l \in ListNotes(db') : \A i \in 1..Len(l) : l[i].ID # last'.id
             /\ \A j \in DOMAIN db \ {last'.id} : j \in DOMAIN db' /\ db'[j] = db[j]
        /\ (backend = "fs" /\ store = "open" /\ store' = "open") =>
             \A id \in Deleted : id \notin DOMAIN db' ]_vars

\* C14: GetNote(id) returns the note with that id, and no error, when the
\* collection holds it, and an error with no note when it does not; the call
\* leaves the collection and the file as they were and calls SaveAll not once.
C14_GetNoteReads ==
    [][ last'.op = "GetNote" =>
          /\ last'.id \in DOMAIN db =>
                (~last'.err /\ last'.ret = NoteOf(db, last'.id))
          /\ last'.id \notin DOMAIN db => (last'.err /\ last'.ret = NoNote)
          /\ db' = db
          /\ file' = file
          /\ last'.saves = <<>> ]_vars

\* C14 witness: GetNote failed on the id of a deleted note while another note
\* was in the collection
C14_Witness ==
    /\ last.op = "GetNote"
    /\ last.err
    /\ last.id \in assigned
    /\ DOMAIN db # {}
    /\ file.kind = "json"

\* a SaveAll made by call c returned an error
SaveFailed(c) == \E i \in 1..Len(c.saves) : c.saves[i].err

\* what LoadAll would return from file f is the collection of table d
PersistedIs(f, d) == ~LoadAll(f).err /\ ListsExactly(LoadAll(f).notes, d)

\* the step leaves the table as the statement of the call made it
MutationKept ==
    db' = CASE last'.op = "CreateNote" ->
                 InsertRow(db, seq, last'.ret.ID, last'.title, last'.content,
                           clock', clock').db
            [] last'.op = "UpdateNote" ->
                 UpdateRow(db, last'.id, last'.title, last'.content, clock')
            [] OTHER -> DeleteRow(db, last'.id)

\* C15 as claimed: when SaveAll fails during a CreateNote, UpdateNote or
\* DeleteNote that changes the collection, the call returns no error, the
\* mutation is kept, and the persisted collection differs from the in-memory
\* one after the call.
C15_SwallowedSoTheyDiffer ==
    [][ (last'.op \in Mutators /\ SaveFailed(last') /\ db' # db) =>
          /\ ~last'.err
          /\ MutationKept
          /\ ~PersistedIs(file', db') ]_vars

\* C15 amended: when SaveAll fails during CreateNote, UpdateNote or DeleteNote
\* the call returns no error and the mutation is kept; the file is as it was
\* before the call, cut short, or (the write done, the close failed) the new
\* document; in the first two cases the persisted collection differs from
\* the in-memory one after the call if the two were equal before it and the
\* call changed the in-memory one.
C15_SwallowedMutationKept ==
    [][ (last'.op \in Mutators /\ SaveFailed(last')) =>
          /\ ~last'.err
          /\ MutationKept
          /\ file' \in {file, CorruptFile, JsonFile(Marshal(last'.saves[1].arg))}
          /\ (PersistedIs(file, db) /\ db' # db /\ file' \in {file, CorruptFile})
               => ~PersistedIs(file', db') ]_vars

\* C15 witness: CreateNote returned a note although its SaveAll failed, and
\* the file still holds the collection without that note
C15_Witness ==
    /\ last.op = "CreateNote"
    /\ SaveFailed(last)
    /\ last.ret.ID \in DOMAIN db
    /\ ~LoadAll(file).err
    /\ \A i \in 1..Len(LoadAll(file).notes) : LoadAll(file).notes[i].ID # last.ret.ID

\* C16: over a path that holds no file, LoadAll returns the empty collection
\* and no error, and NewStore returns a Store, with no error, whose collection
\* is empty and on which CreateNote can be called.
C16_MissingFileIsEmpty ==
    file = MissingFile =>
        /\ last.op = "LoadAll" => (~last.err /\ last.list = <<>>)
        /\ last.op = "NewStore" =>
              /\ ~last.err
              /\ store = "open"
              /\ db = EmptyDB
              /\ ListNotes(db) = { <<>> }
              /\ ENABLED (\E x \in Drafts : CreateNote(x[1], x[2]))

\* C16 witness: NewStore returned over a path that holds no file
C16_Witness ==
    /\ file = MissingFile
    /\ last.op = "NewStore"
    /\ store = "open"

\* two notes of the sequence l carry one id
SharedId(l) == \E i, j \in 1..Len(l) : i < j /\ l[i].ID = l[j].ID

\* C17: when LoadAll returns an error, or two of the notes it returns share
\* an id, NewStore returns an error and no Store; and a Store that NewStore
\* does return holds every note LoadAll returned.
C17_InitFailureIsFatal ==
    [][ (last'.op = "NewStore" /\ backend = "fs") =>
          LET l == LoadAll(file)
          IN  /\ (l.err \/ SharedId(l.notes)) =>
                    (last'.err /\ store' = "none" /\ db' = EmptyDB)
              /\ store' = "open" => (~last'.err /\ ListsExactly(l.notes, db')) ]_vars

\* C17 witness: NewStore failed over a document of two notes under one id
C17_Witness ==
    /\ last.op = "NewStore"
    /\ last.err
    /\ store = "none"
    /\ file.kind = "json"
    /\ Len(file.doc) = 2

\* the last message was the delete command, given in Normal mode with the
\* selection on the last index of a non-empty snapshot
DeletedAtLast ==
    /\ ev.key = "d"
    /\ ev.m.mode = "normal"
    /\ Len(ev.m.notes) > 0
    /\ ev.m.selectedIndex = Len(ev.m.notes) - 1

\* C18 as claimed: after the delete command removed the note at the last index
\* of a non-empty snapshot, the selection index is count-1 of the reloaded
\* snapshot, not negative and in range.
C18_SelectionIsLastIndex ==
    DeletedAtLast =>
        /\ m.selectedIndex = Len(m.notes) - 1
        /\ m.selectedIndex >= 0
        /\ m.selectedIndex < Len(m.notes)

\* C18 amended: after the delete command removed the note at the last index
\* of a non-empty snapshot, the reloaded snapshot has one note less; the
\* selection index is its count-1 when it is not empty, and 0 when it is.
C18_SelectionClamp ==
    DeletedAtLast =>
        /\ Len(m.notes) = Len(ev.m.notes) - 1
        /\ m.mode = "normal"
        /\ m.selectedIndex >= 0
        /\ Len(m.notes) > 0 => m.selectedIndex = Len(m.notes) - 1
        /\ Len(m.notes) = 0 => m.selectedIndex = 0

\* C18 witness: the second of two notes was deleted and the selection moved
\* from index 1 to index 0
C18_Witness ==
    /\ DeletedAtLast
    /\ ev.m.selectedIndex = 1
    /\ m.selectedIndex = 0
    /\ Len(m.notes) = 1

\* the last message was the save command, given in Create or Edit mode, and
\* the Store call it made returned no error
Saved ==
    /\ ev.key = "ctrl+s"
    /\ ev.m.mode \in {"create", "edit"}
    /\ ~m.err

\* the title save stores for the draft it was given
SavedTitle == IF ev.m.editTitle = <<>> THEN Untitled ELSE ev.m.editTitle

\* C19: the snapshot is always a ListNotes result of the Store; after a
\* successful save the mode is Normal; a save in Create mode leaves every
\* note of the snapshot it started from in the collection, unchanged, and adds
\* one note, under a new id, with the title and content of the draft (the
\* title as save stores it); a save in Edit mode keeps the ids of the
\* collection and every note but the selected one, and gives the note under
\* the id of the selected snapshot entry the title and content of the draft.
C19_SaveCommitsDraft ==
    /\ m.mode # "none" => m.notes \in ListNotes(db)
    /\ Saved =>
          LET old == Range(ev.m.notes)
              oldIds == { n.ID : n \in old }
          IN  /\ m.mode = "normal"
              /\ m.editTitle = SavedTitle
              /\ ev.m.mode = "create" =>
                    /\ old \subseteq NotesOf(db)
                    /\ \E id \in DOMAIN db \ oldIds :
                          /\ DOMAIN db = oldIds \cup {id}
                          /\ db[id].Title = SavedTitle
                          /\ db[id].Content = ev.m.editContent
              /\ ev.m.mode = "edit" =>
                    LET id == ev.m.notes[ev.m.selectedIndex + 1].ID
                    IN  /\ DOMAIN db = oldIds
                        /\ db[id].Title = SavedTitle
                        /\ db[id].Content = ev.m.editContent
                        /\ \A n \in old : n.ID # id => n \in NotesOf(db)

\* C19 witness: a save in Edit mode on the second note of the snapshot, with
\* a draft that differs from the note in its content
C19_Witness ==
    /\ Saved
    /\ ev.m.mode = "edit"
    /\ ev.m.selectedIndex = 1
    /\ ev.m.editContent # ev.m.notes[2].Content
    /\ ev.m.notes[1].Content # ev.m.editContent

\* C20: no note of the collection has an empty title; and a save given a
\* draft with an empty title calls the Store with the eight bytes "Untitled"
\* as title, which the created or updated note then carries.
C20_EmptyTitleIsUntitled ==
    /\ \A id \in DOMAIN db : db[id].Title # <<>>
    /\ (Saved /\ ev.m.editTitle = <<>>) =>
          LET id == IF ev.m.mode = "create" THEN last.ret.ID ELSE last.id
          IN  /\ last.op = (IF ev.m.mode = "create" THEN "CreateNote" ELSE "UpdateNote")
              /\ Len(last.title) = 8
              /\ last.title = Untitled
              /\ id \in DOMAIN db
              /\ db[id].Title = last.title

\* C20 witness: a save in Edit mode after the title of the note was erased
C20_Witness ==
    /\ Saved
    /\ ev.m.mode = "edit"
    /\ ev.m.editTitle = <<>>
    /\ ev.m.notes[ev.m.selectedIndex + 1].Title # Untitled
    /\ db[last.id].Title = Untitled

\* the last message was the save command, given in Create or Edit mode
SaveGiven ==
    /\ ev.key = "ctrl+s"
    /\ ev.m.mode \in {"create", "edit"}

\* C21: save in Create mode calls CreateNote and save in Edit mode calls
\* UpdateNote; when that call returns an error, and likewise when the
\* ListNotes call after it does, the mode is the edit mode the save was given
\* in, not Normal, the error is recorded in the model, and the snapshot and
\* the selection are as they were; the mode is Normal only after a save none
\* of whose Store calls returned an error, and the snapshot is then what that
\* ListNotes call returned.
C21_SaveFailureStaysInEditor ==
    SaveGiven =>
        /\ last.op = (IF ev.m.mode = "create" THEN "CreateNote" ELSE "UpdateNote")
        /\ m.mode \in {ev.m.mode, "normal"}
        /\ last.err => m.mode = ev.m.mode
        /\ m.mode = ev.m.mode =>
              /\ m.err
              /\ m.notes = ev.m.notes
              /\ m.selectedIndex = ev.m.selectedIndex
        /\ m.mode = "normal" =>
              /\ ~last.err
              /\ \E r \in ListNotesOf(db, dbFails) : ~r.err /\ m.notes = r.notes

\* C21 witness: a save in Edit mode whose UpdateNote returned an error, given
\* to a model that had recorded no error before
C21_Witness ==
    /\ SaveGiven
    /\ ev.m.mode = "edit"
    /\ ~ev.m.err
    /\ last.op = "UpdateNote"
    /\ last.err
    /\ m.mode = "edit"
    /\ m.err

\* C22: the step of a cancel (esc) given in Create or Edit mode ends in
\* Normal mode and leaves the Store (its collection, its record of calls, its
\* clock), the file of the backend, the snapshot and the selection index all
\* as they were, whatever the draft holds.
C22_CancelMakesNoStoreCall ==
    [][(ev'.key = "esc" /\ m.mode \in {"create", "edit"}) =>
          /\ m'.mode = "normal"
          /\ m'.notes = m.notes
          /\ m'.selectedIndex = m.selectedIndex
          /\ db' = db
          /\ file' = file
          /\ last' = last
          /\ UNCHANGED storeVars]_vars

\* C22 witness: a cancel in Edit mode of a draft whose title and content both
\* differ from the selected note's
C22_Witness ==
    /\ ev.key = "esc"
    /\ ev.m.mode = "edit"
    /\ ev.m.editTitle # ev.m.notes[ev.m.selectedIndex + 1].Title
    /\ ev.m.editContent # ev.m.notes[ev.m.selectedIndex + 1].Content
    /\ m.mode = "normal"

\* the last message was a left click inside the sidebar, given in Normal mode
SidebarClick ==
    /\ ev.key = "mouse"
    /\ ev.button = "left"
    /\ ev.x < 30
    /\ ev.m.mode = "normal"

\* C23: after a left click inside the sidebar, given in Normal mode, on the
\* screen row where a displayed note of the snapshot is drawn, the selection
\* index is the index of that note.
C23_ClickSelectsNote ==
    SidebarClick =>
        \A i \in Displayed(ev.m) : ev.y = SidebarRow(i) => m.selectedIndex = i

\* the text of the active field of model mm, and of its other field
ActiveOf(mm) == IF mm.editingTitle THEN mm.editTitle ELSE mm.editContent
InactiveOf(mm) == IF mm.editingTitle THEN mm.editContent ELSE mm.editTitle

\* C24: the command returned is quit only for "q" or ctrl+c given in Normal
\* mode, and for them it always is, the model unchanged; a key given in
\* Create or Edit mode returns no command; there "q" puts the byte 'q' into
\* the active field of the draft at the caret, the mode kept, and ctrl+c
\* returns the model as it was given.
C24_QuitOnlyInNormal ==
    /\ cmd = "quit" => ev.m.mode = "normal" /\ ev.key \in {"q", "ctrl+c"}
    /\ (ev.m.mode = "normal" /\ ev.key \in {"q", "ctrl+c"}) =>
          cmd = "quit" /\ m = ev.m
    /\ ev.m.mode \in {"create", "edit"} =>
          /\ cmd = "nil"
          /\ ev.key = "ctrl+c" => m = ev.m
          /\ ev.key = "q" =>
                /\ m.mode = ev.m.mode
                /\ m.editingTitle = ev.m.editingTitle
                /\ ActiveOf(m) = Before(ActiveOf(ev.m), ev.m.cursorPos) \o <<113>>
                                     \o After(ActiveOf(ev.m), ev.m.cursorPos)
                /\ InactiveOf(m) = InactiveOf(ev.m)

\* C24 witness: "q" given in Edit mode with the caret inside the title, no
\* command returned
C24_Witness ==
    /\ ev.key = "q"
    /\ ev.m.mode = "edit"
    /\ ev.m.editingTitle
    /\ ev.m.cursorPos > 0
    /\ ev.m.cursorPos < Len(ev.m.editTitle)
    /\ cmd = "nil"
    /\ Len(m.editTitle) = Len(ev.m.editTitle) + 1

\* the selection index is 0 on an empty snapshot and an index of the
\* snapshot otherwise
SelectionInRange ==
    /\ m.selectedIndex >= 0
    /\ m.selectedIndex <= Max(0, Len(m.notes) - 1)

\* C25: the selection index is always in [0, count-1] (0 on an empty
\* snapshot); the step of up or k given in Normal mode decrements it by one
\* unless it is 0, the step of down or j increments it by one unless it is
\* count-1 or the snapshot is empty, and then it stays; mode, snapshot, Store
\* and file are as before the step.
C25_NavigationMovesByOne ==
    /\ []SelectionInRange
    /\ [][(ev'.key \in {"up", "k", "down", "j"} /\ m.mode = "normal") =>
            /\ ev'.key \in {"up", "k"} =>
                  m'.selectedIndex = IF m.selectedIndex = 0 THEN 0
                                     ELSE m.selectedIndex - 1
            /\ ev'.key \in {"down", "j"} =>
                  m'.selectedIndex =
                      IF m.selectedIndex = Len(m.notes) - 1 \/ Len(m.notes) = 0
                      THEN m.selectedIndex
                      ELSE m.selectedIndex + 1
            /\ m'.mode = "normal"
            /\ m'.notes = m.notes
            /\ cmd' = "nil"
            /\ UNCHANGED storeVars]_vars

\* C25 witness: j given with the selection on the last of two notes, where
\* an earlier key had moved it, and it stayed
C25_Witness ==
    /\ ev.key = "j"
    /\ ev.m.mode = "normal"
    /\ Len(ev.m.notes) = 2
    /\ ev.m.selectedIndex = 1
    /\ m.selectedIndex = 1

\* C26: the step of the new command (n) given in Normal mode ends in Create
\* mode with the draft title and the draft content empty, the title field
\* active and the caret at 0, whatever draft the model held before; the
\* snapshot, the selection index, the Store and the file are as before.
C26_NewClearsDraft ==
    [][(ev'.key = "n" /\ m.mode = "normal") =>
          /\ m'.mode = "create"
          /\ m'.editTitle = <<>>
          /\ m'.editContent = <<>>
          /\ m'.editingTitle
          /\ m'.cursorPos = 0
          /\ m'.notes = m.notes
          /\ m'.selectedIndex = m.selectedIndex
          /\ cmd' = "nil"
          /\ UNCHANGED storeVars]_vars

\* C26 witness: the new command given to a model that still held the draft
\* its last save had stored, title and content not empty, the content field
\* active
C26_Witness ==
    /\ ev.key = "n"
    /\ ev.m.mode = "normal"
    /\ last.op \in {"CreateNote", "UpdateNote"}
    /\ last.title = ev.m.editTitle
    /\ last.content = ev.m.editContent
    /\ ev.m.editContent # <<>>
    /\ ~ev.m.editingTitle
    /\ ev.m.cursorPos > 0
    /\ m.mode = "create"
    /\ m.editTitle = <<>>

\* C27: the step of the edit command (e) given in Normal mode with a
\* non-empty snapshot ends in Edit mode with the draft title and content
\* those of the note at the selection index, the title field active and the
\* caret at the length of that title; with an empty snapshot it returns the
\* model as it was, in Normal mode; either way the snapshot, the selection
\* index, the Store and the file are as before.
C27_EditCopiesSelectedNote ==
    [][(ev'.key = "e" /\ m.mode = "normal") =>
          /\ Len(m.notes) > 0 =>
                LET note == m.notes[m.selectedIndex + 1]
                IN  /\ m'.mode = "edit"
                    /\ m'.editTitle = note.Title
                    /\ m'.editContent = note.Content
                    /\ m'.editingTitle
                    /\ m'.cursorPos = Len(note.Title)
          /\ Len(m.notes) = 0 => m' = m /\ m'.mode = "normal"
          /\ m'.notes = m.notes
          /\ m'.selectedIndex = m.selectedIndex
          /\ cmd' = "nil"
          /\ UNCHANGED storeVars]_vars

\* C27 witness: the edit command given with the selection on the second
\* note, whose title or content differs from the first note's
C27_Witness ==
    /\ ev.key = "e"
    /\ ev.m.mode = "normal"
    /\ ev.m.selectedIndex = 1
    /\ ev.m.notes[1].Title # ev.m.notes[2].Title
    /\ m.mode = "edit"
    /\ m.editTitle = ev.m.notes[2].Title
    /\ m.cursorPos > 0

\* C28: after the field switch (tab) given in Create or Edit mode the other
\* field of the draft is the active one, the caret is at the length of the
\* text that field holds, both draft texts and the mode are as they were and
\* no command is returned.
C28_TabTogglesField ==
    (ev.key = "tab" /\ ev.m.mode \in {"create", "edit"}) =>
        /\ m.editingTitle = ~ev.m.editingTitle
        /\ m.cursorPos = Len(ActiveOf(m))
        /\ m.cursorPos = Len(InactiveOf(ev.m))
        /\ m.editTitle = ev.m.editTitle
        /\ m.editContent = ev.m.editContent
        /\ m.mode = ev.m.mode
        /\ cmd = "nil"

\* C28 witness: the switch from the content field, the caret inside its text,
\* to a title of another length
C28_Witness ==
    /\ ev.key = "tab"
    /\ ev.m.mode = "edit"
    /\ ~ev.m.editingTitle
    /\ ev.m.cursorPos > 0
    /\ ev.m.cursorPos < Len(ev.m.editContent)
    /\ Len(ev.m.editTitle) # Len(ev.m.editContent)
    /\ m.editingTitle
    /\ m.cursorPos = Len(m.editTitle)

\* the keys that type text (tea.KeyRunes), and those of them that type one
\* character
RuneKeys == {"q", "n", "e", "d", "k", "j", "e-acute"}
SingleCharacterKeys == { k \in RuneKeys : Len(EncodeString(KeyString(k))) = 1 }

\* the last message was key k, given in Create or Edit mode
TypedInEditor(k) ==
    /\ ev.key = k
    /\ ev.m.mode \in {"create", "edit"}

\* the active field holds text s spliced in at the caret of the model the
\* key was given to, the caret is one further, and the rest is as it was
Spliced(s) ==
    /\ ActiveOf(m) = Before(ActiveOf(ev.m), ev.m.cursorPos) \o s
                         \o After(ActiveOf(ev.m), ev.m.cursorPos)
    /\ m.cursorPos = ev.m.cursorPos + 1
    /\ InactiveOf(m) = InactiveOf(ev.m)
    /\ m.editingTitle = ev.m.editingTitle
    /\ m.mode = ev.m.mode

\* C29: after a key that types one character, given in Create or Edit mode,
\* the active field holds that character at the caret offset, between the
\* text that was before the caret and the text that was after it, the caret
\* is advanced by one and the inactive field is as it was.
C29_CharacterInserted ==
    \A k \in SingleCharacterKeys : TypedInEditor(k) => Spliced(KeyString(k))

\* what holds of C29: a key whose String() is one byte is spliced in and the
\* text grows by one byte; a key that types a character of several bytes
\* changes nothing
C29_SingleByteInserted ==
    \A k \in SingleCharacterKeys :
        TypedInEditor(k) =>
            IF Len(KeyString(k)) = 1
            THEN Spliced(KeyString(k)) /\ Len(ActiveOf(m)) = Len(ActiveOf(ev.m)) + 1
            ELSE m = ev.m

\* the characters of a Go string: its code points, U+FFFD for every byte
\* that is part of no valid encoding
Characters(s) == EncodeString(s)

\* the last message was backward-delete, given in Create or Edit mode
Erased == TypedInEditor("backspace")

\* C30: after backward-delete given in Create or Edit mode with the caret
\* above 0, the characters of the active field are those that were before
\* the caret without the last of them, followed by those that were after the
\* caret, and the caret is one less; given with the caret at 0 the model is
\* as it was; the inactive field is as it was in both cases.
C30_BackspaceRemovesCharacter ==
    Erased =>
        LET old == ActiveOf(ev.m)
            c == ev.m.cursorPos
            before == Characters(Before(old, c))
        IN  /\ c > 0 =>
                  /\ Characters(ActiveOf(m)) =
                        SubSeq(before, 1, Len(before) - 1)
                            \o Characters(After(old, c))
                  /\ m.cursorPos = c - 1
            /\ c = 0 => m = ev.m
            /\ InactiveOf(m) = InactiveOf(ev.m)

\* what holds of C30: the byte before the caret is removed, which is the
\* character before the caret only when that character is a single byte
C30_BackspaceRemovesByte ==
    Erased =>
        LET old == ActiveOf(ev.m)
            c == ev.m.cursorPos
        IN  /\ c > 0 =>
                  /\ ActiveOf(m) = Before(old, c - 1) \o After(old, c)
                  /\ m.cursorPos = c - 1
            /\ c = 0 => m = ev.m
            /\ InactiveOf(m) = InactiveOf(ev.m)
            /\ m.mode = ev.m.mode
            /\ m.editingTitle = ev.m.editingTitle

\* C31: the draft title of an editor opened on notes whose titles hold no
\* line break never holds one; after the newline command (enter) given in
\* Create or Edit mode with the title field active, the content field is the
\* active one and title, content and mode are as they were; given with the
\* content field active, the content holds a line break at the caret offset,
\* between the text that was before the caret and the text that was after
\* it, the caret is one further and the title is as it was.
C31_EnterSwitchesOrBreaksLine ==
    /\ m.mode \in {"create", "edit"} => 10 \notin Range(m.editTitle)
    /\ (TypedInEditor("enter") /\ ev.m.editingTitle) =>
          /\ ~m.editingTitle
          /\ m.editTitle = ev.m.editTitle
          /\ m.editContent = ev.m.editContent
          /\ m.mode = ev.m.mode
    /\ (TypedInEditor("enter") /\ ~ev.m.editingTitle) =>
          /\ Spliced(<<10>>)
          /\ ~m.editingTitle
          /\ m.editTitle = ev.m.editTitle

\* C31 witness: the newline command given with the content field active and
\* the caret inside its text
C31_Witness ==
    /\ TypedInEditor("enter")
    /\ ~ev.m.editingTitle
    /\ ev.m.cursorPos > 0
    /\ ev.m.cursorPos < Len(ev.m.editContent)
    /\ m.editContent[ev.m.cursorPos + 1] = 10
    /\ Len(m.editContent) = Len(ev.m.editContent) + 1

\* the index handleMouse computes for the row of the last click: (Y - 3) / 2
\* in Go's integers
ClickedIndex ==
    IF ev.y >= 3 THEN (ev.y - 3) \div 2 ELSE 0 - ((3 - ev.y) \div 2)

\* C32: after a mouse event no command is returned; after a left click with
\* X < 30 given in Normal mode whose index (Y - 3) / 2 is in [0, count-1]
\* the selection index is that index and the rest of the model is as it
\* was; after every other mouse event (X >= 30, an index out of range,
\* another button, Create or Edit mode) the whole model is as it was.
C32_MouseMapping ==
    ev.key = "mouse" =>
        /\ cmd = "nil"
        /\ IF /\ SidebarClick
              /\ ClickedIndex >= 0
              /\ ClickedIndex <= Len(ev.m.notes) - 1
           THEN m = [ev.m EXCEPT !.selectedIndex = ClickedIndex]
           ELSE m = ev.m

\* C32 witness: a left click in the sidebar moved the selection to the
\* second note
C32_Witness ==
    /\ SidebarClick
    /\ ev.y = 5
    /\ ev.m.selectedIndex = 0
    /\ m.selectedIndex = 1

\* C33: a step taken in Create or Edit mode by a key other than save, or by
\* a mouse event, leaves the Store's collection, the backend's file, the
\* snapshot and the selection index as they were, and makes no Store call;
\* of the model only draft title, draft content, active field, caret and
\* mode can differ.  (A resize of the terminal there changes the width and
\* height the model keeps, and nothing else.)
C33_DraftIsolation ==
    [][ (m.mode \in {"create", "edit"} /\ ev'.key # "ctrl+s") =>
            /\ db' = db
            /\ file' = file
            /\ last' = last
            /\ m'.notes = m.notes
            /\ m'.selectedIndex = m.selectedIndex
            /\ IF ev'.key = "resize"
               THEN m' = [m EXCEPT !.width = m'.width, !.height = m'.height]
               ELSE m' = [m EXCEPT !.editTitle = m'.editTitle,
                                   !.editContent = m'.editContent,
                                   !.editingTitle = m'.editingTitle,
                                   !.cursorPos = m'.cursorPos,
                                   !.mode = m'.mode] ]_vars

\* C33 witness: a key typed in Edit mode has made the draft differ from the
\* selected note, which Store and snapshot still hold as loaded
C33_Witness ==
    /\ ev.key = "q"
    /\ ev.m.mode = "edit"
    /\ m.mode = "edit"
    /\ m.notes # <<>>
    /\ m.notes \in ListNotes(db)
    /\ <<m.editTitle, m.editContent>> #
          <<m.notes[m.selectedIndex + 1].Title, m.notes[m.selectedIndex + 1].Content>>

C35_SelectionWithinSnapshot ==
    /\ m.selectedIndex >= 0
    /\ m.notes # <<>> => m.selectedIndex <= Len(m.notes) - 1

\* C35, what holds: the selection index is never negative.  It is within the
\* snapshot as long as no reload fails; after a delete whose reload returned
\* an error the stale snapshot is longer than the collection, and a later
\* reload can be shorter than the selection index.
C35_SelectionNeverNegative == m.selectedIndex >= 0

\* C36: with the program the only writer and no Store call failing, after
\* every key and mouse event the snapshot the model holds is a result
\* ListNotes() has on the Store as it is now: the notes of the table, each
\* once, with the fields the table holds, most recently updated first.
C36_SnapshotIsFresh ==
    m.mode # "none" =>
        /\ m.notes \in ListNotes(db)
        /\ Len(m.notes) = Cardinality(DOMAIN db)
        /\ \A i \in 1..Len(m.notes) :
              /\ m.notes[i].ID \in DOMAIN db
              /\ \A j \in 1..Len(m.notes) :
                    i < j => m.notes[i].UpdatedAt >= m.notes[j].UpdatedAt

\* C36 witness: a save in Edit mode has brought the second note of the
\* snapshot to its front
C36_Witness ==
    /\ ev.key = "ctrl+s"
    /\ ev.m.mode = "edit"
    /\ m.mode = "normal"
    /\ Len(m.notes) = 2
    /\ m.notes[1].ID = ev.m.notes[2].ID
    /\ m.notes[2] = ev.m.notes[1]
    /\ m.notes \in ListNotes(db)

\* the last key was a save given in Edit mode, and it left the editor
SavedEdit ==
    /\ ev.key = "ctrl+s"
    /\ ev.m.mode = "edit"
    /\ m.mode = "normal"

\* C37: after a successful save in Edit mode the note at the selection index
\* of the reloaded snapshot has the id of the note that was edited.
C37_SelectionFollowsEditedNote ==
    SavedEdit =>
        m.notes[m.selectedIndex + 1].ID = ev.m.notes[ev.m.selectedIndex + 1].ID

\* C37, what holds: the edited note is in the reloaded snapshot with the
\* draft's texts, at an index no later than that of any note updated before
\* the save, and the selection index is the one the edit started from.
C37_EditedNoteMovesSelectionStays ==
    SavedEdit =>
        /\ m.selectedIndex = ev.m.selectedIndex
        /\ \E i \in 1..Len(m.notes) :
              /\ m.notes[i].ID = ev.m.notes[ev.m.selectedIndex + 1].ID
              /\ m.notes[i].Title = ev.m.editTitle
              /\ m.notes[i].Content = ev.m.editContent
              /\ \A j \in 1..Len(m.notes) :
                    m.notes[j].UpdatedAt < m.notes[i].UpdatedAt => i < j

\* C38: a left click on a header row (Y < 3) leaves the selection index as
\* it was, whatever its column and the size of the snapshot.
C38_HeaderClickKeepsSelection ==
    (ev.key = "mouse" /\ ev.button = "left" /\ ev.y < 3) =>
        m.selectedIndex = ev.m.selectedIndex

\* C38, what holds: a left click on the rows 0 and 1 leaves the model as it
\* was; a left click on row 2 in the sidebar, in Normal mode over a snapshot
\* that is not empty, sets the selection index to 0.
C38_RuleRowSelectsFirst ==
    (ev.key = "mouse" /\ ev.button = "left" /\ ev.y < 3) =>
        IF SidebarClick /\ ev.y = 2 /\ ev.m.notes # <<>>
        THEN m = [ev.m EXCEPT !.selectedIndex = 0]
        ELSE m = ev.m

\* a step in which a CreateNote, UpdateNote or DeleteNote whose SaveAll
\* returns no error follows a call whose SaveAll failed
SaveAfterFailedSave ==
    /\ SaveFailed(last)
    /\ last'.op \in Mutators
    /\ Len(last'.saves) = 1
    /\ ~last'.saves[1].err

\* C39: after the first CreateNote, UpdateNote or DeleteNote whose SaveAll
\* succeeds after calls whose SaveAll failed, what LoadAll would return is
\* the Store's whole collection: same ids, same fields for each.
C39_NextSaveHeals ==
    [][ SaveAfterFailedSave => PersistedIs(file', db') ]_vars

\* C39, what holds: after such a call the file is the JSON document of the
\* Store's whole collection as ListNotes gives it, whatever the file was
\* before (stale or cut short), and LoadAll returns as many notes, with the
\* ids, createdAt and updatedAt of the Store's, and with their titles and
\* contents too when all of these are valid UTF-8.
C39_NextSaveWritesWholeCollection ==
    [][ SaveAfterFailedSave =>
          /\ \E l \in ListNotes(db') : file' = JsonFile(Marshal(l))
          /\ ~LoadAll(file').err
          /\ { <<n.ID, n.CreatedAt, n.UpdatedAt>> : n \in Range(LoadAll(file').notes) }
               = { <<n.ID, n.CreatedAt, n.UpdatedAt>> : n \in NotesOf(db') }
          /\ Len(LoadAll(file').notes) = Cardinality(DOMAIN db')
          /\ (\A n \in NotesOf(db') :
                  /\ DecodeString(EncodeString(n.Title)) = n.Title
                  /\ DecodeString(EncodeString(n.Content)) = n.Content)
               => PersistedIs(file', db') ]_vars

\* a save step that leaves the model in the editor with an error recorded
SaveReportsError ==
    /\ ev'.key = "ctrl+s"
    /\ m.mode \in {"create", "edit"}
    /\ m'.mode = m.mode
    /\ m'.err

\* C40: a save that leaves the model in Create or Edit mode with an error
\* recorded leaves the Store's collection as it was before the save.
C40_FailedSaveCommitsNothing ==
    [][ SaveReportsError => db' = db ]_vars

\* C40, what holds: such a save leaves the Store's collection as it was when
\* its CreateNote or UpdateNote returned the error; when that call returned
\* none and the ListNotes after it failed, the note is created, or updated
\* with the draft, in the Store, while the snapshot does not show it.
C40_FailedSaveCommitsUnlessListFails ==
    [][ SaveReportsError =>
          /\ last'.op = (IF m.mode = "create" THEN "CreateNote" ELSE "UpdateNote")
          /\ m'.notes = m.notes
          /\ last'.err => db' = db
          /\ (~last'.err /\ m.mode = "create") =>
                /\ DOMAIN db' = DOMAIN db \cup {last'.ret.ID}
                /\ last'.ret.ID \notin DOMAIN db
                /\ db'[last'.ret.ID].Title = m'.editTitle
          /\ (~last'.err /\ m.mode = "edit") =>
                /\ DOMAIN db' = DOMAIN db
                /\ last'.id \in DOMAIN db => db'[last'.id].Title = m'.editTitle ]_vars

=============================================================================
